---- MODULE Spec2Model ----
(***************************************************************************)
(* Model of the chord transposer in src/src/index.ts: getNoteIndex,        *)
(* chooseEnharmonic, transposeChord, transposeChords and the example run   *)
(* at the bottom of the file.  JavaScript strings are sequences of         *)
(* one-character strings; String.prototype.includes, split, slice, join    *)
(* and match are modelled by what they compute.  A thrown exception is a   *)
(* result whose status is not "ok".                                        *)
(***************************************************************************)
EXTENDS Integers, Sequences, FiniteSets

VARIABLES pc, fn, arg, interval, ret, follow, ret2

vars == <<pc, fn, arg, interval, ret, follow, ret2>>

(* ---------------------------- bounds ----------------------------------- *)

\* intervals and directions are drawn from -MaxInterval..MaxInterval
MaxInterval == 14

\* chord symbols are all strings over Alphabet of at most MaxChordLen characters
MaxChordLen == 3

\* chord sequences have at most MaxChords space-separated elements
MaxChords == 2

Intervals == (0 - MaxInterval)..MaxInterval

(* ---------------------------- characters ------------------------------- *)

NoteLetters == {"A", "B", "C", "D", "E", "F", "G"}

Accidentals == {"#", "b"}

\* "m" stands both for a quality character and for a character that is not A-G
Alphabet == NoteLetters \cup Accidentals \cup {"m"}

Chords == UNION {[1..k -> Alphabet] : k \in 0..MaxChordLen}

\* the 21 strings the root pattern can extract
Roots == {<<l>> : l \in NoteLetters} \cup {<<l, a>> : l \in NoteLetters, a \in Accidentals}

Min(S) == CHOOSE x \in S : \A y \in S : x <= y

(* ---------------------------- the table -------------------------------- *)

\* ./objects/chromaticScale: 12 entries, index 0 = C, pairs are "sharp/flat"
chromaticScale ==
    << <<"C">>,
       <<"C", "#", "/", "D", "b">>,
       <<"D">>,
       <<"D", "#", "/", "E", "b">>,
       <<"E">>,
       <<"F">>,
       <<"F", "#", "/", "G", "b">>,
       <<"G">>,
       <<"G", "#", "/", "A", "b">>,
       <<"A">>,
       <<"A", "#", "/", "B", "b">>,
       <<"B">> >>

\* chromaticScale.length
ScaleLength == Len(chromaticScale)

\* chromaticScale[i] with the code's 0-based index; <<>> stands for undefined
Entry(i) == IF i \in 0..(ScaleLength - 1) THEN chromaticScale[i + 1] ELSE <<>>

(* ---------------------------- string primitives ------------------------ *)

\* String.prototype.includes: sub occurs in s as a contiguous substring
includes(s, sub) ==
    \E i \in 0..(Len(s) - Len(sub)) : SubSeq(s, i + 1, i + Len(sub)) = sub

\* String.prototype.split on a one-character separator
RECURSIVE split(_, _)
split(s, sep) ==
    LET at == {i \in 1..Len(s) : s[i] = sep}
    IN  IF at = {} THEN <<s>>
        ELSE <<SubSeq(s, 1, Min(at) - 1)>> \o split(SubSeq(s, Min(at) + 1, Len(s)), sep)

\* Array.prototype.join with a one-character separator
RECURSIVE join(_, _)
join(parts, sep) ==
    IF Len(parts) = 0 THEN <<>>
    ELSE IF Len(parts) = 1 THEN parts[1]
    ELSE parts[1] \o <<sep>> \o join(Tail(parts), sep)

\* chord.match(/[A-G](#|b)?/)[0]; <<>> stands for a null match
rootMatch(chord) ==
    LET at == {i \in 1..Len(chord) : chord[i] \in NoteLetters}
    IN  IF at = {} THEN <<>>
        ELSE LET i == Min(at)
             IN  IF i < Len(chord) /\ chord[i + 1] \in Accidentals
                 THEN <<chord[i], chord[i + 1]>>
                 ELSE <<chord[i]>>

\* the JavaScript % operator on integers: the result takes the sign of a
JsRem(a, b) == IF a >= 0 THEN a % b ELSE 0 - ((0 - a) % b)

(* ---------------------------- results ---------------------------------- *)

Result(status, value, root, quality, rootIndex, newIndex) ==
    [status |-> status, value |-> value, root |-> root, quality |-> quality,
     rootIndex |-> rootIndex, newIndex |-> newIndex]

NoResult == Result("none", <<>>, <<>>, <<>>, 0, 0)

(* ---------------------------- the functions ---------------------------- *)

\* getNoteIndex comparing only the letter of the note
getNoteIndexLetterOnly(note) ==
    LET hits == {i \in 0..(ScaleLength - 1) : includes(Entry(i), SubSeq(note, 1, 1))}
    IN  IF hits = {} THEN [status |-> "UnknownNote", index |-> 0]
        ELSE [status |-> "ok", index |-> Min(hits)]

getNoteIndex(note) ==
    LET hits == {i \in 0..(ScaleLength - 1) : includes(Entry(i), note)}
    IN  IF hits = {} THEN [status |-> "UnknownNote", index |-> 0]
        ELSE [status |-> "ok", index |-> Min(hits)]

\* chooseEnharmonic with the two directions exchanged
chooseEnharmonicSwapped(note, direction) ==
    LET enharmonics == split(note, "/")
    IN  IF direction < 0 /\ includes(enharmonics[1], <<"#">>)
        THEN [status |-> "ok", value |-> enharmonics[1]]
        ELSE IF direction > 0
             THEN IF Len(enharmonics) < 2
                  THEN [status |-> "TypeError", value |-> <<>>]
                  ELSE IF includes(enharmonics[2], <<"b">>)
                       THEN [status |-> "ok", value |-> enharmonics[2]]
                       ELSE [status |-> "ok", value |-> enharmonics[1]]
             ELSE [status |-> "ok", value |-> enharmonics[1]]

chooseEnharmonic(note, direction) ==
    LET enharmonics == split(note, "/")
    IN  IF direction > 0 /\ includes(enharmonics[1], <<"#">>)
        THEN [status |-> "ok", value |-> enharmonics[1]]
        ELSE IF direction < 0
             THEN IF Len(enharmonics) < 2
                  THEN [status |-> "TypeError", value |-> <<>>]
                  ELSE IF includes(enharmonics[2], <<"b">>)
                       THEN [status |-> "ok", value |-> enharmonics[2]]
                       ELSE [status |-> "ok", value |-> enharmonics[1]]
             ELSE [status |-> "ok", value |-> enharmonics[1]]

transposeChord(chord, n) ==
    LET root == rootMatch(chord)
    IN  IF root = <<>>
        THEN Result("InvalidChordFormat", <<>>, <<>>, <<>>, 0, 0)
        ELSE
        LET quality == SubSeq(chord, Len(root) + 1, Len(chord))
            found == getNoteIndex(root)
        IN  IF found.status # "ok"
            THEN Result(found.status, <<>>, root, quality, 0, 0)
            ELSE
            LET rootIndex == found.index
                newIndex == JsRem(rootIndex + n + ScaleLength, ScaleLength)
                newRoot == Entry(newIndex)
            IN  IF newIndex \notin 0..(ScaleLength - 1)
                THEN Result("TypeError", <<>>, root, quality, rootIndex, newIndex)
                ELSE IF includes(newRoot, <<"/">>)
                     THEN LET chosen == chooseEnharmonic(newRoot, n)
                          IN  IF chosen.status # "ok"
                              THEN Result(chosen.status, <<>>, root, quality, rootIndex, newIndex)
                              ELSE Result("ok", chosen.value \o quality, root, quality,
                                          rootIndex, newIndex)
                     ELSE Result("ok", newRoot \o quality, root, quality, rootIndex, newIndex)

\* rootIndex of the result is the position of the element that threw (0: none)
transposeChords(chords, n) ==
    LET parts == split(chords, " ")
        each == [i \in 1..Len(parts) |-> transposeChord(parts[i], n)]
        failed == {i \in 1..Len(parts) : each[i].status # "ok"}
    IN  IF failed # {}
        THEN Result(each[Min(failed)].status, <<>>, <<>>, <<>>, Min(failed), 0)
        ELSE Result("ok", join([i \in 1..Len(parts) |-> each[i].value], " "),
                    <<>>, <<>>, 0, 0)

(* ---------------------------- inputs ----------------------------------- *)

\* elements chord sequences are built from: well-formed chords, the empty
\* string, an element not starting with A-G, and a root missing from the table
SeqElems ==
    { <<>>, <<"C">>, <<"G">>, <<"A", "m">>, <<"F">>, <<"D", "b">>,
      <<"m", "A">>, <<"m">>, <<"E", "#">> }

ChordSeqs ==
    UNION {{join(q, " ") : q \in [1..k -> SeqElems]} : k \in 1..MaxChords}

\* lines 81-82
originalChords == <<"C", " ", "G", " ", "A", "m", " ", "F">>

exampleInterval == 7

PairIndexes == {i \in 0..(ScaleLength - 1) : includes(Entry(i), <<"/">>)}

(* ---------------------------- state machine ---------------------------- *)

Init ==
    /\ pc = "idle"
    /\ fn = "none"
    /\ arg = <<>>
    /\ interval = 0
    /\ ret = NoResult
    /\ follow = "none"
    /\ ret2 = NoResult

CallGetNoteIndex ==
    /\ pc = "idle"
    /\ \E note \in Roots :
         /\ arg' = note
         /\ ret' = LET r == getNoteIndex(note)
                   IN  Result(r.status, <<>>, note, <<>>, r.index, 0)
    /\ pc' = "returned"
    /\ fn' = "getNoteIndex"
    /\ UNCHANGED <<interval, follow, ret2>>

CallChooseEnharmonic ==
    /\ pc = "idle"
    /\ \E i \in PairIndexes, direction \in Intervals :
         /\ arg' = Entry(i)
         /\ interval' = direction
         /\ ret' = LET r == chooseEnharmonic(Entry(i), direction)
                   IN  Result(r.status, r.value, <<>>, <<>>, 0, i)
    /\ pc' = "returned"
    /\ fn' = "chooseEnharmonic"
    /\ UNCHANGED <<follow, ret2>>

CallTransposeChord ==
    /\ pc = "idle"
    /\ \E chord \in Chords, n \in Intervals :
         /\ arg' = chord
         /\ interval' = n
         /\ ret' = transposeChord(chord, n)
    /\ pc' = "returned"
    /\ fn' = "transposeChord"
    /\ UNCHANGED <<follow, ret2>>

\* transposeChord(transposeChord(c, n), -n)
TransposeBack ==
    /\ pc = "returned"
    /\ fn = "transposeChord"
    /\ ret.status = "ok"
    /\ ret2' = transposeChord(ret.value, 0 - interval)
    /\ follow' = "back"
    /\ pc' = "followed"
    /\ UNCHANGED <<fn, arg, interval, ret>>

\* transposeChord(c, n + 12) next to transposeChord(c, n)
TransposeOctave ==
    /\ pc = "returned"
    /\ fn = "transposeChord"
    /\ ret2' = transposeChord(arg, interval + 12)
    /\ follow' = "octave"
    /\ pc' = "followed"
    /\ UNCHANGED <<fn, arg, interval, ret>>

CallTransposeChords ==
    /\ pc = "idle"
    /\ \E chords \in ChordSeqs, n \in Intervals :
         /\ arg' = chords
         /\ interval' = n
         /\ ret' = transposeChords(chords, n)
    /\ pc' = "returned"
    /\ fn' = "transposeChords"
    /\ UNCHANGED <<follow, ret2>>

\* lines 81-87: the module's own example run
ExampleUsage ==
    /\ pc = "idle"
    /\ arg' = originalChords
    /\ interval' = exampleInterval
    /\ ret' = transposeChords(originalChords, exampleInterval)
    /\ pc' = "returned"
    /\ fn' = "example"
    /\ UNCHANGED <<follow, ret2>>

Return ==
    /\ pc \in {"returned", "followed"}
    /\ pc' = "idle"
    /\ fn' = "none"
    /\ arg' = <<>>
    /\ interval' = 0
    /\ ret' = NoResult
    /\ follow' = "none"
    /\ ret2' = NoResult

Next ==
    \/ CallGetNoteIndex
    \/ CallChooseEnharmonic
    \/ CallTransposeChord
    \/ TransposeBack
    \/ TransposeOctave
    \/ CallTransposeChords
    \/ ExampleUsage
    \/ Return

Spec == Init /\ [][Next]_vars

TypeOK ==
    /\ pc \in {"idle", "returned", "followed"}
    /\ fn \in {"none", "getNoteIndex", "chooseEnharmonic", "transposeChord",
               "transposeChords", "example"}
    /\ interval \in Int
    /\ ret.status \in {"none", "ok", "InvalidChordFormat", "UnknownNote", "TypeError"}
    /\ ret2.status \in {"none", "ok", "InvalidChordFormat", "UnknownNote", "TypeError"}

(* ---------------------------- reference notions ------------------------ *)

\* the spellings an entry stands for: the entry itself and its halves
Spellings(i) == {Entry(i)} \cup {split(Entry(i), "/")[k] : k \in 1..Len(split(Entry(i), "/"))}

TableSpellings == UNION {Spellings(i) : i \in 0..(ScaleLength - 1)}

\* the pitch class of a spelling: the index of the entry it is a spelling of
PitchClass(note) == CHOOSE i \in 0..(ScaleLength - 1) : note \in Spellings(i)

\* the root at the very start of a chord: a letter A-G and an optional # or b
LeadingRoot(chord) ==
    IF Len(chord) = 0 \/ chord[1] \notin NoteLetters THEN <<>>
    ELSE IF Len(chord) > 1 /\ chord[2] \in Accidentals THEN <<chord[1], chord[2]>>
    ELSE <<chord[1]>>

\* what follows the leading root
QualityOf(chord) == SubSeq(chord, Len(LeadingRoot(chord)) + 1, Len(chord))

ValidChord(chord) == LeadingRoot(chord) \in TableSpellings

\* the spelling rule for a pair entry
RuleSpelling(entry, direction) ==
    LET halves == split(entry, "/")
    IN  IF direction > 0 THEN halves[1]
        ELSE IF direction < 0 /\ includes(halves[2], <<"b">>) THEN halves[2]
        ELSE halves[1]

(* ---------------------------- claims ----------------------------------- *)

\* C1: for a chord whose root is a table spelling and an interval in 0..11,
\* transposeChord returns a spelling of the pitch class `interval` semitones
\* above the root's pitch class followed by the quality; the example run
\* transposeChords("C G Am F", 7) returns "G D Em C".
C1_TransposeUp ==
    /\ (fn = "transposeChord" /\ ValidChord(arg) /\ interval \in 0..11) =>
          /\ ret.status = "ok"
          /\ \E s \in Spellings((PitchClass(LeadingRoot(arg)) + interval) % 12) :
                ret.value = s \o QualityOf(arg)
    /\ fn = "example" =>
          /\ ret.status = "ok"
          /\ ret.value = <<"G", " ", "D", " ", "E", "m", " ", "C">>

\* C2: for a valid chord c and an integer n, transposeChord(c, n) succeeds,
\* transposeChord of its result by -n succeeds, and the root of that result
\* has the pitch class of the root of c.
C2_RoundTrip ==
    (fn = "transposeChord" /\ ValidChord(arg)) =>
        /\ ret.status = "ok"
        /\ follow = "back" =>
              /\ ret2.status = "ok"
              /\ ValidChord(ret2.value)
              /\ PitchClass(LeadingRoot(ret2.value)) = PitchClass(LeadingRoot(arg))

\* C3: for a valid chord and an integer n, transposeChord by n and by n + 12
\* both succeed and their output roots have the same pitch class.
C3_ModuloClosure ==
    (fn = "transposeChord" /\ ValidChord(arg) /\ follow = "octave") =>
        /\ ret.status = "ok"
        /\ ret2.status = "ok"
        /\ ValidChord(ret.value)
        /\ ValidChord(ret2.value)
        /\ PitchClass(LeadingRoot(ret.value)) = PitchClass(LeadingRoot(ret2.value))

\* C4: whenever transposeChord returns a string, the string is a table
\* spelling followed by exactly the part of the input after its leading root.
C4_QualityPreserved ==
    (fn = "transposeChord" /\ ret.status = "ok") =>
        /\ LeadingRoot(arg) # <<>>
        /\ \E s \in TableSpellings : ret.value = s \o QualityOf(arg)

\* C5: transposeChord fails with the invalid-chord-format error, returning no
\* string, for every chord that does not begin with a letter A-G.
C5_AnchoredRoot ==
    (fn = "transposeChord" /\ LeadingRoot(arg) = <<>>) =>
        /\ ret.status = "InvalidChordFormat"
        /\ ret.value = <<>>

\* C6: if an element of the single-space split of the input is malformed
\* (empty, not starting with A-G, or with a root outside the table),
\* transposeChords fails and returns no output.
C6_SequenceAtomicity ==
    (fn = "transposeChords" /\ \E i \in 1..Len(split(arg, " ")) : ~ValidChord(split(arg, " ")[i])) =>
        /\ ret.status \in {"InvalidChordFormat", "UnknownNote", "TypeError"}
        /\ ret.value = <<>>

\* C7: transposeChord fails with the unknown-note error, returning no string,
\* whenever the root it extracted is not a spelling of the table.
C7_UnknownNote ==
    (fn = "transposeChord" /\ ret.root # <<>> /\ ret.root \notin TableSpellings) =>
        /\ ret.status = "UnknownNote"
        /\ ret.value = <<>>

\* C7 witness: the root "E#" was extracted and rejected
C7_Witness ==
    /\ fn = "transposeChord"
    /\ ret.root = <<"E", "#">>
    /\ interval < 0
    /\ ret.status = "UnknownNote"

\* C8: getNoteIndex returns, for a spelling of the table, the index of the
\* entry that equals it or has it as one half of its pair; the naturals
\* resolve to 0, 2, 4, 5, 7, 9, 11.
C8_ResolveIndex ==
    (fn = "getNoteIndex" /\ arg \in TableSpellings) =>
        /\ ret.status = "ok"
        /\ ret.rootIndex = PitchClass(arg)

\* C9: once the root is resolved, the normalized index used to read the
\* table is in 0..11 and is the non-negative (rootIndex + interval) mod 12.
C9_NormalizedIndex ==
    (fn = "transposeChord" /\ ret.status \in {"ok", "TypeError"}) =>
        /\ ret.newIndex \in 0..11
        /\ ret.newIndex = (ret.rootIndex + interval) % 12

\* C10: chooseEnharmonic returns, for a pair entry of the table, the sharp
\* half when direction > 0, the flat half when direction < 0 and that half
\* contains 'b', the sharp half otherwise; transposeChord spells a pair entry
\* by this rule with the interval as direction and a natural entry unchanged.
C10_SpellingRule ==
    /\ fn = "chooseEnharmonic" =>
          /\ ret.status = "ok"
          /\ ret.value = RuleSpelling(arg, interval)
    /\ (fn = "transposeChord" /\ ret.status = "ok") =>
          LET entry == Entry(ret.newIndex)
          IN  IF includes(entry, <<"/">>)
              THEN ret.value = RuleSpelling(entry, interval) \o ret.quality
              ELSE ret.value = entry \o ret.quality

\* C10 witness: a descending direction produced the flat half "Db"
C10_Witness ==
    /\ fn = "chooseEnharmonic"
    /\ interval < 0
    /\ arg = <<"C", "#", "/", "D", "b">>
    /\ ret.value = <<"D", "b">>
====
